---- MODULE Spec2Model ----
(***************************************************************************)
(* Model of mybazar-logger: the RabbitMQ transport (rabbitMQ/rabbitmq.go)  *)
(* with the broker and the amqp client it talks to, and the logger facade  *)
(* (logger/logger.go and its later revision with an injected transport).   *)
(***************************************************************************)
EXTENDS Integers, Sequences, FiniteSets, TLC

\* ---------------------------------------------------------------- bounds
MaxMsgs == 2        \* messages the broker accepts in one behaviour
MaxSubs == 2        \* ConsumeMessages subscriptions in one behaviour
MaxLogs == 1        \* facade operations called in one behaviour

\* ---------------------------------------------------------------- inputs
Transports == {"t1"}                \* the Transport under study, in its own process
QueueNames == {"logs", "orders"}     \* the queues the broker may hold
CallerQueues == {"logs"}            \* the queue name a direct caller of the Transport passes
Exchanges  == {"", "ex"}            \* "" is the default exchange; "ex" is never declared
Bodies     == {"a", "b"}
QueueArgs  == {[durable |-> TRUE, autoDelete |-> TRUE],
               [durable |-> TRUE, autoDelete |-> FALSE]}
NoQueue    == [exists |-> FALSE, durable |-> FALSE, autoDelete |-> FALSE]

VARIABLES
  conn,         \* rabbitmq.conn of each Transport: "none" | "open" | "closed"
  channel,      \* rabbitmq.channel of each Transport: "none" | "open" | "closed"
  handle,       \* TRUE while a caller holds the *rabbitmq returned by NewRabbitMQ
  closeCalled,  \* Close has been called on the Transport
  queueProps,   \* broker: the properties each queue was declared with
  queues,       \* broker: the messages waiting in each queue
  nextId,       \* broker: identity of the next accepted message
  subs,         \* one entry per ConsumeMessages goroutine and its msgs channel
  failed,       \* ids of the messages whose handler failed or panicked
  lastCall,     \* the most recent call on a Transport and what it returned
  lg,           \* the logger struct (facade)
  nlogs,        \* facade operations called so far
  lastLog       \* the most recent facade call and what it returned

tvars == <<conn, channel, handle, closeCalled, queueProps, queues, nextId, subs, failed, lastCall>>
lvars == <<lg, nlogs, lastLog>>
vars  == <<conn, channel, handle, closeCalled, queueProps, queues, nextId, subs, failed, lastCall, lg, nlogs, lastLog>>

NoCall == [op |-> "none", t |-> "none", err |-> "nil",
           afterClose |-> FALSE, spawned |-> FALSE, chanTried |-> FALSE, connTried |-> FALSE,
           connected |-> FALSE, queueExisted |-> FALSE]

Call(op, t, err) == [NoCall EXCEPT !.op = op, !.t = t, !.err = err,
                                   !.afterClose = closeCalled[t]]

\* ------------------------------------------------------- amqp client, broker
Connected(t) == conn[t] = "open" /\ channel[t] = "open"

\* every method of a closed amqp.Channel returns amqp.ErrClosed
ChannelErr(t) == IF channel[t] = "open" THEN "nil" ELSE "ErrClosed"

\* amqp.Connection.Close on a connection that is already closed returns ErrClosed
ConnCloseErr(t) == IF conn[t] = "open" THEN "nil" ELSE "ErrClosed"

SubIdx == DOMAIN subs

OpenOn(t, q) == {i \in SubIdx : subs[i].t = t /\ subs[i].q = q /\ subs[i].open}

\* an auto-delete queue is deleted when its last consumer goes away
AutoDeleted(t, q) ==
  /\ queueProps[q].exists /\ queueProps[q].autoDelete
  /\ OpenOn(t, q) # {}
  /\ \A u \in Transports \ {t} : OpenOn(u, q) = {}

RECURSIVE Unacked(_, _, _)
\* the unacknowledged deliveries of t's consumers of q, in subscription order
Unacked(t, q, i) ==
  IF i > Len(subs) THEN <<>>
  ELSE (IF subs[i].t = t /\ subs[i].q = q THEN subs[i].unacked ELSE <<>>) \o Unacked(t, q, i + 1)

\* the channel of t goes away: its consumers are cancelled and their msgs
\* channels closed, the broker requeues what they had not acknowledged
SubsAfterShutdown(t) ==
  [i \in SubIdx |-> IF subs[i].t = t
                    THEN [subs[i] EXCEPT !.open = FALSE, !.unacked = <<>>]
                    ELSE subs[i]]

QueuesAfterShutdown(t) ==
  [q \in QueueNames |-> IF AutoDeleted(t, q) THEN <<>> ELSE Unacked(t, q, 1) \o queues[q]]

PropsAfterShutdown(t) ==
  [q \in QueueNames |-> IF AutoDeleted(t, q) THEN NoQueue ELSE queueProps[q]]

ChannelShutdown(t) ==
  /\ channel' = [channel EXCEPT ![t] = IF @ = "none" THEN @ ELSE "closed"]
  /\ subs' = SubsAfterShutdown(t)
  /\ queues' = QueuesAfterShutdown(t)
  /\ queueProps' = PropsAfterShutdown(t)

\* ------------------------------------------------------------- Transport
\* connectToRabbitMQ: dial, then open the channel; close the connection when
\* the channel cannot be opened
ConnAfterConnectNoClose(outcome) ==
  CASE outcome = "dial_err" -> "none"
    [] OTHER -> "open"

\* the connection connectToRabbitMQ leaves behind: none when the dial failed,
\* closed by conn.Close() when conn.Channel() failed
ConnAfterConnect(outcome) ==
  CASE outcome = "dial_err" -> "none"
    [] outcome = "chan_err" -> "closed"
    [] OTHER -> "open"

NewRabbitMQCall(t, outcome) ==
  /\ conn[t] = "none"
  /\ conn' = [conn EXCEPT ![t] = ConnAfterConnect(outcome)]
  /\ channel' = [channel EXCEPT ![t] = IF outcome = "ok" THEN "open" ELSE "none"]
  /\ handle' = [handle EXCEPT ![t] = outcome = "ok"]
  /\ lastCall' = Call("NewRabbitMQ", t, IF outcome = "ok" THEN "nil" ELSE outcome)
  /\ UNCHANGED <<closeCalled, queueProps, queues, nextId, subs, failed>>

NewRabbitMQ(t) ==
  /\ \E outcome \in {"dial_err", "chan_err", "ok"} : NewRabbitMQCall(t, outcome)
  /\ UNCHANGED lvars

\* channel.QueueDeclare: idempotent for equal properties, a channel exception
\* (PRECONDITION_FAILED) for different ones
DeclareErr(t, queueName, args) ==
  IF ChannelErr(t) # "nil" THEN ChannelErr(t)
  ELSE IF queueProps[queueName].exists
          /\ (queueProps[queueName].durable # args.durable
              \/ queueProps[queueName].autoDelete # args.autoDelete)
       THEN "Exception"
       ELSE "nil"

DeclareQueueCall(t, queueName, args) ==
  LET err == DeclareErr(t, queueName, args) IN
  /\ handle[t]
  /\ IF err = "Exception" THEN ChannelShutdown(t)
     ELSE /\ queueProps' = IF err = "nil"
                           THEN [queueProps EXCEPT ![queueName] =
                                   [exists |-> TRUE, durable |-> args.durable,
                                    autoDelete |-> args.autoDelete]]
                           ELSE queueProps
          /\ UNCHANGED <<channel, subs, queues>>
  /\ lastCall' = Call("DeclareQueue", t, err)
  /\ UNCHANGED <<conn, handle, closeCalled, nextId, failed>>

DeclareQueue(t) ==
  /\ \E q \in CallerQueues, args \in QueueArgs : DeclareQueueCall(t, q, args)
  /\ UNCHANGED lvars

PublishErrSwallowed(t) == "nil"

\* the error PublishMessage returns: that of channel.Publish
PublishErr(t) == ChannelErr(t)

RoutedToUndeclared(exchangeName, queueName) == exchangeName = ""

\* the default exchange routes by queue name, to a queue that exists
Routed(exchangeName, queueName) == exchangeName = "" /\ queueProps[queueName].exists

EnqueueFront(q, m) == <<m>> \o q

\* one caller, one channel: the broker queues the messages in the order of
\* the channel.Publish calls
Enqueue(q, m) == Append(q, m)

\* channel.Publish with mandatory = false and immediate = false: a message
\* no queue is bound for is dropped by the broker; an unknown exchange is a
\* channel exception the broker raises after the call has returned
PublishMessageCall(t, queueName, exchangeName, message) ==
  LET sent == ChannelErr(t) = "nil"
      routed == sent /\ Routed(exchangeName, queueName) IN
  /\ handle[t]
  /\ sent => nextId <= MaxMsgs
  /\ nextId' = IF sent THEN nextId + 1 ELSE nextId
  /\ IF sent /\ exchangeName # "" THEN ChannelShutdown(t)
     ELSE /\ queues' = IF routed
                       THEN [queues EXCEPT ![queueName] =
                               Enqueue(@, [id |-> nextId, body |-> message])]
                       ELSE queues
          /\ UNCHANGED <<channel, subs, queueProps>>
  /\ lastCall' = [Call("PublishMessage", t, PublishErr(t))
                    EXCEPT !.connected = Connected(t),
                           !.queueExisted = queueProps[queueName].exists]
  /\ UNCHANGED <<conn, handle, closeCalled, failed>>

PublishMessage(t) ==
  /\ \E q \in CallerQueues, ex \in Exchanges, m \in Bodies : PublishMessageCall(t, q, ex, m)
  /\ UNCHANGED lvars

\* channel.Consume: ErrClosed on a closed channel, a channel exception
\* (NOT_FOUND) for a queue that does not exist
ConsumeErr(t, queueName) ==
  IF ChannelErr(t) # "nil" THEN ChannelErr(t)
  ELSE IF ~queueProps[queueName].exists THEN "Exception" ELSE "nil"

SpawnsAlways(err) == TRUE

\* the goroutine is started only after the error check
Spawns(err) == err = "nil"

ManualAck == FALSE

\* the auto-ack argument of channel.Consume
AutoAck == TRUE

NewSub(t, queueName) ==
  [t |-> t, q |-> queueName, open |-> TRUE, msgs |-> <<>>, unacked |-> <<>>,
   handling |-> {}, done |-> FALSE, received |-> <<>>, started |-> <<>>]

ConsumeMessagesCall(t, queueName) ==
  LET err == ConsumeErr(t, queueName) IN
  /\ handle[t]
  /\ Len(subs) < MaxSubs
  /\ IF err = "Exception"
     THEN /\ channel' = [channel EXCEPT ![t] = "closed"]
          /\ subs' = IF Spawns(err)
                     THEN Append(SubsAfterShutdown(t), [NewSub(t, queueName) EXCEPT !.open = FALSE])
                     ELSE SubsAfterShutdown(t)
          /\ queues' = QueuesAfterShutdown(t)
          /\ queueProps' = PropsAfterShutdown(t)
     ELSE /\ subs' = IF Spawns(err)
                     THEN Append(subs, [NewSub(t, queueName) EXCEPT !.open = err = "nil"])
                     ELSE subs
          /\ UNCHANGED <<channel, queues, queueProps>>
  /\ lastCall' = [Call("ConsumeMessages", t, err) EXCEPT !.spawned = Spawns(err)]
  /\ UNCHANGED <<conn, handle, closeCalled, nextId, failed>>

ConsumeMessages(t) ==
  /\ \E q \in CallerQueues : ConsumeMessagesCall(t, q)
  /\ UNCHANGED lvars

\* Close returns at the first failing release
CloseTriesConn(chErr) == chErr = "nil"

\* channel.Close leaves the channel closed whatever it returns
CloseCall(t) ==
  LET chErr == ChannelErr(t)
      connTried == CloseTriesConn(chErr) IN
  /\ handle[t]
  /\ closeCalled' = [closeCalled EXCEPT ![t] = TRUE]
  /\ ChannelShutdown(t)
  /\ conn' = IF connTried THEN [conn EXCEPT ![t] = "closed"] ELSE conn
  /\ lastCall' = [Call("Close", t, IF chErr # "nil" THEN chErr
                                  ELSE IF connTried THEN ConnCloseErr(t) ELSE "nil")
                    EXCEPT !.chanTried = TRUE, !.connTried = connTried]
  /\ UNCHANGED <<handle, nextId, failed>>

Close(t) ==
  /\ CloseCall(t)
  /\ UNCHANGED lvars

\* ------------------------------------------------- broker and goroutines
\* the broker hands the head of the queue to one of its consumers; with
\* auto-ack the delivery counts as acknowledged as soon as it is sent
BrokerDeliver(i) ==
  LET s == subs[i]
      m == Head(queues[s.q]) IN
  /\ s.open
  /\ queues[s.q] # <<>>
  /\ queues' = [queues EXCEPT ![s.q] = Tail(@)]
  /\ subs' = [subs EXCEPT ![i].msgs = Append(@, m),
                          ![i].received = Append(@, m.id),
                          ![i].unacked = IF AutoAck THEN @ ELSE Append(@, m)]
  /\ UNCHANGED <<conn, channel, handle, closeCalled, queueProps, nextId, failed, lastCall>>
  /\ UNCHANGED lvars

LoopReadyAlways(s) == TRUE

\* `for msg := range msgs { handler(msg.Body) }`: the loop receives again
\* only after the handler has returned
LoopReady(s) == s.handling = {}

\* the loop takes the next delivery off msgs and calls the handler
LoopRecv(i) ==
  LET s == subs[i] IN
  /\ ~s.done
  /\ LoopReady(s)
  /\ s.msgs # <<>>
  /\ subs' = [subs EXCEPT ![i].msgs = Tail(@),
                          ![i].handling = @ \cup {Head(s.msgs).id},
                          ![i].started = Append(@, Head(s.msgs).id)]
  /\ UNCHANGED <<conn, channel, handle, closeCalled, queueProps, queues, nextId, failed, lastCall>>
  /\ UNCHANGED lvars

\* the handler returns, having done its work or not
HandlerReturn(i) ==
  \E id \in subs[i].handling, outcome \in {"ok", "fail"} :
    /\ subs' = [subs EXCEPT ![i].handling = @ \ {id}]
    /\ failed' = IF outcome = "fail" THEN failed \cup {id} ELSE failed
    /\ UNCHANGED <<conn, channel, handle, closeCalled, queueProps, queues, nextId, lastCall>>
    /\ UNCHANGED lvars

\* the handler panics: the process of the Transport dies, the broker sees
\* its connection drop
HandlerPanic(i) ==
  LET t == subs[i].t IN
  \E id \in subs[i].handling :
    /\ failed' = failed \cup {id}
    /\ conn' = [conn EXCEPT ![t] = "closed"]
    /\ channel' = [channel EXCEPT ![t] = "closed"]
    /\ handle' = [handle EXCEPT ![t] = FALSE]
    /\ subs' = [j \in SubIdx |-> IF subs[j].t = t
                                  THEN [subs[j] EXCEPT !.open = FALSE, !.unacked = <<>>,
                                                       !.msgs = <<>>, !.handling = {},
                                                       !.done = TRUE]
                                  ELSE subs[j]]
    /\ queues' = QueuesAfterShutdown(t)
    /\ queueProps' = PropsAfterShutdown(t)
    /\ UNCHANGED <<closeCalled, nextId, lastCall>>
    /\ UNCHANGED lvars

\* the amqp client drops the deliveries it still buffers for a consumer
\* whose channel has been closed
DropBuffered(i) ==
  /\ ~subs[i].open
  /\ subs[i].msgs # <<>>
  /\ subs' = [subs EXCEPT ![i].msgs = <<>>]
  /\ UNCHANGED <<conn, channel, handle, closeCalled, queueProps, queues, nextId, failed, lastCall>>
  /\ UNCHANGED lvars

RangeNeverEnds(s) == FALSE

\* range over msgs ends when the channel is closed and drained
RangeEnds(s) == ~s.open /\ s.msgs = <<>>

\* the loop ends after the last handler call has returned: the goroutine returns
LoopExit(i) ==
  /\ RangeEnds(subs[i])
  /\ ~subs[i].done
  /\ subs[i].handling = {}
  /\ subs' = [subs EXCEPT ![i].done = TRUE]
  /\ UNCHANGED <<conn, channel, handle, closeCalled, queueProps, queues, nextId, failed, lastCall>>
  /\ UNCHANGED lvars

\* the network or the broker drops the connection of a Transport
ConnectionLost(t) ==
  /\ conn[t] = "open"
  /\ conn' = [conn EXCEPT ![t] = "closed"]
  /\ ChannelShutdown(t)
  /\ UNCHANGED <<handle, closeCalled, nextId, failed, lastCall>>
  /\ UNCHANGED lvars

\* ---------------------------------------------------------- logger facade
\* "v1" is logger/logger.go, which dials the broker itself; "v2" is the later
\* revision that is handed a Transport and takes a request payload of any type.
\* Only the fields an operation looks at are modelled; ErrorMessage, DetailsUz,
\* DetailsRu, Method, EventType, ResponseData and MerchantApiKey are copied
\* through unread, Timestamp is the wall clock.
SevOps       == {"Info", "Warn", "Error", "Critical"}
ErrorCodes   == {0, 4001}
MessagesUz   == {"", "xato"}
MessagesRu   == {"", "ok"}
StatusCodes  == {0, 404}
ApiEndpoints == {"", "/req"}
LogQueues    == {"logs"}
OrderQueues  == {"", "orders"}
FunctionNames == {"login"}
DefaultEndpoints == {"/api/v1/login"}
LoggerQueueArgs == [durable |-> TRUE, autoDelete |-> TRUE]

StringPayloads == {[kind |-> "string", val |-> ""], [kind |-> "string", val |-> "p"]}
AnyPayloads == StringPayloads \cup {[kind |-> "bytes", val |-> ""], [kind |-> "bytes", val |-> "p"],
                                    [kind |-> "nil", val |-> ""],
                                    [kind |-> "chan", val |-> ""]}

LogRequests(payloads) ==
  [ErrorCode : ErrorCodes, ClientMessageUz : MessagesUz, ClientMessageRu : MessagesRu,
   ApiEndpoint : ApiEndpoints, StatusCode : StatusCodes, RequestPayload : payloads]

NoRecord == [ErrorLevel |-> "", ErrorCode |-> 0, ClientMessageUz |-> "", ClientMessageRu |-> "",
             ApiEndpoint |-> "", FunctionName |-> "", StatusCode |-> 0, RequestPayload |-> ""]

NoLogger == [exists |-> FALSE, variant |-> "none", rabbitmq |-> "none", queue |-> "",
             orderQueue |-> "", functionName |-> "", apiEndpoint |-> ""]

NoPub == [queue |-> "", exchange |-> "", body |-> "none"]

NoLog == [op |-> "none", variant |-> "none", req |-> "none", err |-> "nil", built |-> FALSE,
          calls |-> 0, perr |-> "nil", pub |-> NoPub, declared |-> <<>>]

Orders == {[OrderText |-> "", MerchantId |-> ""], [OrderText |-> "2 x tea", MerchantId |-> "m1"]}

\* the severity tag each operation passes to populateLogRequest
LevelV1(op) == CASE op = "Info" -> "info" [] op = "Warn" -> "warning"
                 [] op = "Error" -> "error" [] OTHER -> "critical"

LevelV2(op) == "info"

\* json.Marshal of a request payload that is neither []byte nor string
JsonMarshalPayload(p) ==
  CASE p.kind = "nil" -> [err |-> "nil", body |-> "null"]
    [] OTHER -> [err |-> "json: unsupported type", body |-> ""]

NormalizePayloadMarshalsAll(p) ==
  CASE p.kind = "bytes" -> [err |-> "nil", body |-> p.val]
    [] p.kind = "string" -> [err |-> "nil", body |-> IF p.val = "" THEN "\"\"" ELSE "\"p\""]
    [] OTHER -> JsonMarshalPayload(p)

\* the type switch of populateLogRequest
NormalizePayload(p) ==
  CASE p.kind = "bytes" -> [err |-> "nil", body |-> p.val]
    [] p.kind = "string" -> [err |-> "nil", body |-> p.val]
    [] OTHER -> JsonMarshalPayload(p)

populateLogRequestV1_NoStatusDefault(l, log, errorLevel) ==
  [ErrorLevel |-> errorLevel, ErrorCode |-> log.ErrorCode,
   ClientMessageUz |-> log.ClientMessageUz, ClientMessageRu |-> log.ClientMessageRu,
   ApiEndpoint |-> IF log.ApiEndpoint = "" THEN l.apiEndpoint ELSE log.ApiEndpoint,
   FunctionName |-> l.functionName,
   StatusCode |-> log.StatusCode,
   RequestPayload |-> log.RequestPayload.val]

populateLogRequestV1(l, log, errorLevel) ==
  [ErrorLevel |-> errorLevel, ErrorCode |-> log.ErrorCode,
   ClientMessageUz |-> log.ClientMessageUz, ClientMessageRu |-> log.ClientMessageRu,
   ApiEndpoint |-> IF log.ApiEndpoint = "" THEN l.apiEndpoint ELSE log.ApiEndpoint,
   FunctionName |-> l.functionName,
   StatusCode |-> IF log.StatusCode = 0 THEN 200 ELSE log.StatusCode,
   RequestPayload |-> log.RequestPayload.val]

populateLogRequestV2_NoEndpointDefault(l, log, errorLevel) ==
  LET norm == NormalizePayload(log.RequestPayload) IN
  IF norm.err # "nil" THEN [err |-> norm.err, rec |-> NoRecord]
  ELSE [err |-> "nil",
        rec |-> [ErrorLevel |-> errorLevel, ErrorCode |-> log.ErrorCode,
                 ClientMessageUz |-> log.ClientMessageUz, ClientMessageRu |-> log.ClientMessageRu,
                 ApiEndpoint |-> log.ApiEndpoint,
                 FunctionName |-> l.functionName,
                 StatusCode |-> IF log.StatusCode = 0 THEN 200 ELSE log.StatusCode,
                 RequestPayload |-> norm.body]]

populateLogRequestV2(l, log, errorLevel) ==
  LET norm == NormalizePayload(log.RequestPayload) IN
  IF norm.err # "nil" THEN [err |-> norm.err, rec |-> NoRecord]
  ELSE [err |-> "nil",
        rec |-> [ErrorLevel |-> errorLevel, ErrorCode |-> log.ErrorCode,
                 ClientMessageUz |-> log.ClientMessageUz, ClientMessageRu |-> log.ClientMessageRu,
                 ApiEndpoint |-> IF log.ApiEndpoint = "" THEN l.apiEndpoint ELSE log.ApiEndpoint,
                 FunctionName |-> l.functionName,
                 StatusCode |-> IF log.StatusCode = 0 THEN 200 ELSE log.StatusCode,
                 RequestPayload |-> norm.body]]

validateLogRequestV1(log) ==
  IF log.ErrorCode = 0 THEN "error_code is required"
  ELSE IF log.ClientMessageUz = "" /\ log.ClientMessageRu = ""
       THEN "at least one client message (Uz or Ru) is required"
       ELSE "nil"

validateLogRequestV2_NoCodeCheck(log) ==
  IF log.ClientMessageUz = "" /\ log.ClientMessageRu = ""
  THEN "at least one client message (Uz or Ru) is required"
  ELSE IF log.ErrorLevel = ""
          \/ ((log.ErrorLevel = "error" \/ log.ErrorLevel = "critical") /\ log.RequestPayload = "")
       THEN "request payload is required for this error level"
       ELSE "nil"

validateLogRequestV2_EitherMessage(log) ==
  IF log.ErrorCode = 0 THEN "error_code is required"
  ELSE IF log.ClientMessageUz = "" \/ log.ClientMessageRu = ""
       THEN "at least one client message (Uz or Ru) is required"
       ELSE IF log.ErrorLevel = ""
               \/ ((log.ErrorLevel = "error" \/ log.ErrorLevel = "critical") /\ log.RequestPayload = "")
            THEN "request payload is required for this error level"
            ELSE "nil"

validateLogRequestV2(log) ==
  IF log.ErrorCode = 0 THEN "error_code is required"
  ELSE IF log.ClientMessageUz = "" /\ log.ClientMessageRu = ""
       THEN "at least one client message (Uz or Ru) is required"
       ELSE IF log.ErrorLevel = ""
               \/ ((log.ErrorLevel = "error" \/ log.ErrorLevel = "critical") /\ log.RequestPayload = "")
            THEN "request payload is required for this error level"
            ELSE "nil"

\* json.Marshal of a logRequest: the struct tags name the fields
MarshalRecord(rec) ==
  [error_level |-> rec.ErrorLevel, error_code |-> rec.ErrorCode,
   client_message_uz |-> rec.ClientMessageUz, client_message_ru |-> rec.ClientMessageRu,
   api_endpoint |-> rec.ApiEndpoint, function_name |-> rec.FunctionName,
   status_code |-> rec.StatusCode, request_payload |-> rec.RequestPayload]

\* populate and validate, in the order each revision runs them
BuildV1(l, op, log) ==
  LET rec == populateLogRequestV1(l, log, LevelV1(op)) IN
  [err |-> validateLogRequestV1(rec), rec |-> rec]

BuildV2(l, op, log) ==
  LET pop == populateLogRequestV2(l, log, LevelV2(op)) IN
  IF pop.err # "nil" THEN pop
  ELSE [err |-> validateLogRequestV2(pop.rec), rec |-> pop.rec]

\* the error publish (v1) wraps, the severity operations of v2 return as is
PublishResult(variant, err) ==
  IF err = "nil" THEN "nil"
  ELSE IF variant = "v1" THEN "failed to publish log message" ELSE err

\* the body of an Order as the Transport serializes it
MarshalOrder(order) == [order_text |-> order.OrderText, merchant_id |-> order.MerchantId]

\* the queue name OrderNotification passes to PublishMessage
OrderNotificationQueue(l) == l.queue

PublishAttemptsRetry(err) == IF err = "nil" THEN 1 ELSE 2

\* a facade operation calls PublishMessage once, whatever it returns
PublishAttempts(err) == 1

FacadeReturnedAlways(err) == TRUE

\* NewLogger returns nil, not a logger, when DeclareQueue failed
FacadeReturned(err) == err = "nil"

\* NewLogger of logger.go: connect, declare the log queue, build the logger
NewLoggerV1(t) ==
  \E outcome \in {"dial_err", "chan_err", "ok"}, queueName \in LogQueues,
     functionName \in FunctionNames, apiEndpoint \in DefaultEndpoints :
    LET derr == IF queueProps[queueName].exists /\ ~queueProps[queueName].autoDelete
                THEN "Exception" ELSE "nil"
        ok == outcome = "ok" /\ FacadeReturned(derr) IN
    /\ ~lg.exists
    /\ conn[t] = "none"
    /\ conn' = [conn EXCEPT ![t] = ConnAfterConnect(outcome)]
    /\ channel' = [channel EXCEPT ![t] = IF outcome # "ok" THEN "none"
                                         ELSE IF derr = "nil" THEN "open" ELSE "closed"]
    /\ handle' = [handle EXCEPT ![t] = ok]
    /\ queueProps' = IF ok THEN [queueProps EXCEPT ![queueName] =
                                   [exists |-> TRUE, durable |-> TRUE, autoDelete |-> TRUE]]
                      ELSE queueProps
    /\ lastCall' = IF outcome = "ok" THEN Call("DeclareQueue", t, derr)
                    ELSE Call("NewRabbitMQ", t, outcome)
    /\ lg' = IF ok THEN [exists |-> TRUE, variant |-> "v1", rabbitmq |-> t, queue |-> queueName,
                          orderQueue |-> "", functionName |-> functionName,
                          apiEndpoint |-> apiEndpoint]
              ELSE lg
    /\ lastLog' = [NoLog EXCEPT !.op = "NewLogger", !.variant = "v1",
                                !.err = IF outcome # "ok" THEN "failed to initialize RabbitMQ"
                                        ELSE IF derr # "nil" THEN "failed to declare queue"
                                        ELSE "nil",
                                !.perr = IF outcome # "ok" THEN outcome ELSE derr,
                                !.declared = IF outcome = "ok" THEN <<queueName>> ELSE <<>>]
    /\ UNCHANGED <<closeCalled, queues, nextId, subs, failed, nlogs>>

\* NewLogger of the later revision: declare the log queue on the Transport
\* it is given, keep the order queue name when one is passed
NewLoggerV2(t) ==
  \E queueName \in LogQueues, functionName \in FunctionNames,
     apiEndpoint \in DefaultEndpoints, orderQueue \in OrderQueues :
    /\ ~lg.exists
    /\ DeclareQueueCall(t, queueName, LoggerQueueArgs)
    /\ lg' = IF FacadeReturned(lastCall'.err)
              THEN [exists |-> TRUE, variant |-> "v2", rabbitmq |-> t, queue |-> queueName,
                    orderQueue |-> orderQueue, functionName |-> functionName,
                    apiEndpoint |-> apiEndpoint]
              ELSE lg
    /\ lastLog' = [NoLog EXCEPT !.op = "NewLogger", !.variant = "v2",
                                !.err = IF lastCall'.err = "nil" THEN "nil"
                                        ELSE "failed to declare queue",
                                !.perr = lastCall'.err,
                                !.declared = <<queueName>>]
    /\ UNCHANGED nlogs

\* Info, Warn, Error, Critical: build the record, publish it to l.queue
SeverityCall(op, log) ==
  LET built == IF lg.variant = "v1" THEN BuildV1(lg, op, log) ELSE BuildV2(lg, op, log) IN
  /\ lg.exists
  /\ nlogs < MaxLogs
  /\ nlogs' = nlogs + 1
  /\ IF built.err # "nil"
     THEN /\ lastLog' = [NoLog EXCEPT !.op = op, !.variant = lg.variant, !.req = log,
                                     !.err = built.err]
          /\ UNCHANGED tvars
     ELSE /\ PublishMessageCall(lg.rabbitmq, lg.queue, "", MarshalRecord(built.rec))
          /\ lastLog' = [NoLog EXCEPT !.op = op, !.variant = lg.variant, !.req = log,
                                     !.err = PublishResult(lg.variant, lastCall'.err),
                                     !.built = TRUE,
                                     !.calls = PublishAttempts(lastCall'.err),
                                     !.perr = lastCall'.err,
                                     !.pub = [queue |-> lg.queue, exchange |-> "",
                                              body |-> MarshalRecord(built.rec)]]
  /\ UNCHANGED lg

\* OrderNotification of the later revision: no Build step, one PublishMessage
OrderNotificationCall(order) ==
  /\ lg.exists /\ lg.variant = "v2"
  /\ nlogs < MaxLogs
  /\ nlogs' = nlogs + 1
  /\ PublishMessageCall(lg.rabbitmq, OrderNotificationQueue(lg), "", MarshalOrder(order))
  /\ lastLog' = [NoLog EXCEPT !.op = "OrderNotification", !.variant = lg.variant,
                             !.req = order, !.err = lastCall'.err,
                             !.calls = PublishAttempts(lastCall'.err),
                             !.perr = lastCall'.err,
                             !.pub = [queue |-> OrderNotificationQueue(lg), exchange |-> "",
                                      body |-> MarshalOrder(order)]]
  /\ UNCHANGED lg

OrderNotification == \E order \in Orders : OrderNotificationCall(order)

Requests == IF lg.variant = "v1" THEN LogRequests(StringPayloads) ELSE LogRequests(AnyPayloads)

Info == \E log \in Requests : SeverityCall("Info", log)

Warn == \E log \in Requests : SeverityCall("Warn", log)

Error == \E log \in Requests : SeverityCall("Error", log)

Critical == \E log \in Requests : SeverityCall("Critical", log)

\* CloseRabbitMQConnection of logger.go
CloseRabbitMQConnection ==
  /\ lg.exists /\ lg.variant = "v1"
  /\ CloseCall(lg.rabbitmq)
  /\ UNCHANGED lvars

\* the caller of the later revision owns the Transport and closes it itself
CallerClose(t) ==
  /\ ~(lg.exists /\ lg.variant = "v1")
  /\ Close(t)

Init ==
  /\ conn = [t \in Transports |-> "none"]
  /\ channel = [t \in Transports |-> "none"]
  /\ handle = [t \in Transports |-> FALSE]
  /\ closeCalled = [t \in Transports |-> FALSE]
  /\ queueProps = [q \in QueueNames |-> NoQueue]
  /\ queues = [q \in QueueNames |-> <<>>]
  /\ nextId = 1
  /\ subs = <<>>
  /\ failed = {}
  /\ lastCall = NoCall
  /\ lg = NoLogger
  /\ nlogs = 0
  /\ lastLog = NoLog

Next ==
  \/ \E t \in Transports : NewRabbitMQ(t)
  \/ \E t \in Transports : DeclareQueue(t)
  \/ \E t \in Transports : PublishMessage(t)
  \/ \E t \in Transports : ConsumeMessages(t)
  \/ \E t \in Transports : Close(t)
  \/ \E t \in Transports : ConnectionLost(t)
  \/ \E i \in SubIdx : BrokerDeliver(i)
  \/ \E i \in SubIdx : LoopRecv(i)
  \/ \E i \in SubIdx : HandlerReturn(i)
  \/ \E i \in SubIdx : HandlerPanic(i)
  \/ \E i \in SubIdx : DropBuffered(i)
  \/ \E i \in SubIdx : LoopExit(i)

Spec == Init /\ [][Next]_vars

\* the Go scheduler runs a goroutine that can take a step
LoopFairness ==
  \A i \in 1 .. MaxSubs :
    /\ WF_vars(i \in SubIdx /\ LoopRecv(i))
    /\ WF_vars(i \in SubIdx /\ LoopExit(i))

\* the callers of a consuming service: one queue, declared one way, and
\* messages of one body published to it through the default exchange
DeclareConsumed(t) ==
  /\ \E q \in CallerQueues : DeclareQueueCall(t, q, LoggerQueueArgs)
  /\ UNCHANGED lvars

PublishConsumed(t) ==
  /\ \E q \in CallerQueues : PublishMessageCall(t, q, "", "a")
  /\ UNCHANGED lvars

NextConsume ==
  \/ \E t \in Transports : NewRabbitMQ(t)
  \/ \E t \in Transports : DeclareConsumed(t)
  \/ \E t \in Transports : PublishConsumed(t)
  \/ \E t \in Transports : ConsumeMessages(t)
  \/ \E t \in Transports : Close(t)
  \/ \E t \in Transports : ConnectionLost(t)
  \/ \E i \in SubIdx : BrokerDeliver(i)
  \/ \E i \in SubIdx : LoopRecv(i)
  \/ \E i \in SubIdx : HandlerReturn(i)
  \/ \E i \in SubIdx : HandlerPanic(i)
  \/ \E i \in SubIdx : DropBuffered(i)
  \/ \E i \in SubIdx : LoopExit(i)

SpecFair == Init /\ [][NextConsume]_vars /\ LoopFairness

NextLogger ==
  \/ \E t \in Transports : NewRabbitMQ(t)
  \/ \E t \in Transports : NewLoggerV1(t)
  \/ \E t \in Transports : NewLoggerV2(t)
  \/ Info
  \/ Warn
  \/ Error
  \/ Critical
  \/ OrderNotification
  \/ CloseRabbitMQConnection
  \/ \E t \in Transports : CallerClose(t)
  \/ \E t \in Transports : ConnectionLost(t)

SpecLogger == Init /\ [][NextLogger]_vars

\* another process on the same broker has declared the queue, through its
\* own Transport, with properties of its choice
ForeignDeclare(q, args) ==
  /\ ~queueProps[q].exists
  /\ queueProps' = [queueProps EXCEPT ![q] = [exists |-> TRUE, durable |-> args.durable,
                                               autoDelete |-> args.autoDelete]]
  /\ UNCHANGED <<conn, channel, handle, closeCalled, queues, nextId, subs, failed, lastCall>>
  /\ UNCHANGED lvars

\* a service that builds its logger from a broker URL, on a shared broker
NextDial ==
  \/ \E q \in LogQueues, args \in QueueArgs : ForeignDeclare(q, args)
  \/ \E t \in Transports : NewLoggerV1(t)
  \/ Info
  \/ Warn
  \/ Error
  \/ Critical
  \/ CloseRabbitMQConnection
  \/ \E t \in Transports : ConnectionLost(t)

SpecDial == Init /\ [][NextDial]_vars

\* ------------------------------------------------------------ properties
MsgIds == 1 .. MaxMsgs

Range(f) == {f[x] : x \in DOMAIN f}

IsPrefix(a, b) == Len(a) <= Len(b) /\ \A k \in 1 .. Len(a) : a[k] = b[k]

\* how many times the message was handed to a handler, over all subscriptions
RECURSIVE Handed(_, _)
Handed(id, i) ==
  IF i > Len(subs) THEN 0
  ELSE Cardinality({k \in DOMAIN subs[i].started : subs[i].started[k] = id}) + Handed(id, i + 1)

InBroker(id) ==
  \/ \E q \in QueueNames : \E k \in DOMAIN queues[q] : queues[q][k].id = id
  \/ \E i \in SubIdx : \E k \in DOMAIN subs[i].unacked : subs[i].unacked[k].id = id

\* C1: a PublishMessage call made after Close was called on the Transport
\* returns an error, never nil, whatever queue, exchange and payload it is given
C1_PublishAfterCloseFails ==
  (lastCall.op = "PublishMessage" /\ lastCall.afterClose) => lastCall.err = "ErrClosed"

C1_Witness ==
  /\ lastCall.op = "PublishMessage" /\ lastCall.afterClose
  /\ lastCall.err = "ErrClosed"

\* C2: once Close has been called the Transport is never Connected again and
\* has no live subscription; DeclareQueue and ConsumeMessages called after
\* Close fail with ErrClosed and ConsumeMessages starts no goroutine
C2_ClosedIsFinal ==
  /\ \A t \in Transports :
        closeCalled[t] => /\ ~Connected(t)
                          /\ \A i \in SubIdx : subs[i].t = t => ~subs[i].open
  /\ (lastCall.op \in {"DeclareQueue", "ConsumeMessages"} /\ lastCall.afterClose)
        => (lastCall.err = "ErrClosed" /\ ~lastCall.spawned)

C2_Witness ==
  /\ lastCall.op = "ConsumeMessages" /\ lastCall.afterClose
  /\ lastCall.err = "ErrClosed"
  /\ ~Connected(lastCall.t)

\* C3: every Close call attempts the channel release and then the connection
\* release, the second also when the first fails
C3_CloseAttemptsBoth ==
  lastCall.op = "Close" => (lastCall.chanTried /\ lastCall.connTried)

\* C4: a delivery is acknowledged when the broker sends it: the broker keeps
\* nothing it has delivered, so no message is handed to a handler twice and
\* none comes back after its handler failed or panicked
C4_AtMostOnce ==
  /\ \A id \in MsgIds : Handed(id, 1) <= 1
  /\ \A i \in SubIdx : \A k \in DOMAIN subs[i].received : ~InBroker(subs[i].received[k])

C4_Witness ==
  \E i \in SubIdx : \E id \in failed :
    /\ id \in Range(subs[i].started)
    /\ ~subs[i].open
    /\ Handed(id, 1) = 1 /\ ~InBroker(id)

\* C5: within one subscription at most one handler invocation is running, it
\* is the one for the message started last, and the handlers are started in
\* the order the broker delivered the messages
C5_SequentialInOrder ==
  \A i \in SubIdx :
    /\ Cardinality(subs[i].handling) <= 1
    /\ subs[i].handling # {} => subs[i].handling = {subs[i].started[Len(subs[i].started)]}
    /\ IsPrefix(subs[i].started, subs[i].received)

C5_Witness ==
  \E i \in SubIdx :
    /\ Len(subs[i].started) >= 2
    /\ Len(subs[i].msgs) = 0 /\ subs[i].handling # {}

ValidationErrors == {"error_code is required",
                     "at least one client message (Uz or Ru) is required",
                     "request payload is required for this error level"}

Serializable(p) == p.kind # "chan"

EmptyPayload(p) == p.kind \in {"string", "bytes"} /\ p.val = ""

HasMessage(r) == r.ClientMessageUz # "" \/ r.ClientMessageRu # ""

\* C6: the record a severity operation publishes carries that operation's
\* own severity tag and goes to the primary log queue
C6_OwnSeverityTag ==
  (lastLog.op \in SevOps /\ lastLog.built) =>
    /\ lastLog.pub.body.error_level =
         (CASE lastLog.op = "Info" -> "info" [] lastLog.op = "Warn" -> "warning"
            [] lastLog.op = "Error" -> "error" [] OTHER -> "critical")
    /\ lastLog.pub.queue = lg.queue

\* C7: an otherwise valid request with an empty request payload is rejected
\* by Error and Critical, with the payload error and without publishing, and
\* is accepted by Info and Warn
C7_PayloadRequiredForErrors ==
  (/\ lastLog.op \in SevOps
   /\ lastLog.req.ErrorCode # 0 /\ HasMessage(lastLog.req)
   /\ EmptyPayload(lastLog.req.RequestPayload)) =>
    IF lastLog.op \in {"Error", "Critical"}
    THEN lastLog.err = "request payload is required for this error level" /\ lastLog.calls = 0
    ELSE lastLog.built

\* C8 as claimed: every request with error code 0 fails with a validation
\* error, whatever its other fields hold
C8_ZeroCodeIsValidationError ==
  (lastLog.op \in SevOps /\ lastLog.req.ErrorCode = 0) => lastLog.err \in ValidationErrors

\* C8 as amended: every request with error code 0 fails and publishes
\* nothing; the error is "error_code is required" unless the request payload
\* cannot be serialized, and then it is the serialization error
C8_ZeroCodeFails ==
  (lastLog.op \in SevOps /\ lastLog.req.ErrorCode = 0) =>
    /\ ~lastLog.built /\ lastLog.calls = 0
    /\ lastLog.err = IF Serializable(lastLog.req.RequestPayload)
                      THEN "error_code is required" ELSE "json: unsupported type"

C8_Witness ==
  /\ lastLog.op = "Critical" /\ lastLog.variant = "v2"
  /\ lastLog.req.ErrorCode = 0 /\ lastLog.req.ClientMessageUz # ""
  /\ lastLog.req.RequestPayload = [kind |-> "string", val |-> "p"]
  /\ lastLog.err = "error_code is required" /\ lastLog.calls = 0

\* C9 as claimed: every request with both client messages empty fails with a
\* validation error, and one with exactly one of them is not rejected for
\* its client messages
C9_NoMessageIsValidationError ==
  lastLog.op \in SevOps =>
    /\ ~HasMessage(lastLog.req) => lastLog.err \in ValidationErrors
    /\ (lastLog.req.ClientMessageUz = "") # (lastLog.req.ClientMessageRu = "")
         => lastLog.err # "at least one client message (Uz or Ru) is required"

\* C9 as amended: every request with both client messages empty fails and
\* publishes nothing, with a validation error unless the request payload
\* cannot be serialized, and then with the serialization error; a request
\* with exactly one client message is not rejected for its client messages
C9_NoMessageFails ==
  lastLog.op \in SevOps =>
    /\ ~HasMessage(lastLog.req) =>
         /\ ~lastLog.built /\ lastLog.calls = 0
         /\ lastLog.err = IF ~Serializable(lastLog.req.RequestPayload)
                           THEN "json: unsupported type"
                           ELSE IF lastLog.req.ErrorCode = 0 THEN "error_code is required"
                           ELSE "at least one client message (Uz or Ru) is required"
    /\ (lastLog.req.ClientMessageUz = "") # (lastLog.req.ClientMessageRu = "")
         => lastLog.err # "at least one client message (Uz or Ru) is required"

C9_Witness ==
  /\ lastLog.op \in SevOps
  /\ lastLog.req.ErrorCode # 0 /\ ~HasMessage(lastLog.req)
  /\ lastLog.err = "at least one client message (Uz or Ru) is required"
  /\ lastLog.calls = 0

\* C10 as claimed: every request with a non-zero error code and a client
\* message builds, and the record has status code 200 for input 0 and the
\* input status code otherwise
C10_ValidRequestBuilds ==
  (lastLog.op \in SevOps /\ lastLog.req.ErrorCode # 0 /\ HasMessage(lastLog.req)) =>
    /\ lastLog.built
    /\ lastLog.pub.body.status_code =
         IF lastLog.req.StatusCode = 0 THEN 200 ELSE lastLog.req.StatusCode

\* C10 as amended: every request with a non-zero error code, a client
\* message and a request payload that can be serialized builds, and the
\* record has status code 200 for input 0 and the input status code otherwise
C10_SerializableValidRequestBuilds ==
  (/\ lastLog.op \in SevOps
   /\ lastLog.req.ErrorCode # 0 /\ HasMessage(lastLog.req)
   /\ Serializable(lastLog.req.RequestPayload)) =>
    /\ lastLog.built
    /\ lastLog.pub.body.status_code =
         IF lastLog.req.StatusCode = 0 THEN 200 ELSE lastLog.req.StatusCode

C10_Witness ==
  /\ lastLog.op \in SevOps /\ lastLog.built
  /\ lastLog.req.StatusCode = 0
  /\ lastLog.pub.body.status_code = 200
  /\ lastLog.pub.body.error_code # 0

\* C11: a built record has the request's endpoint, or the logger's configured
\* endpoint when the request has none, and the logger's function name
C11_EndpointAndFunctionName ==
  (lastLog.op \in SevOps /\ lastLog.built) =>
    /\ lastLog.pub.body.api_endpoint =
         IF lastLog.req.ApiEndpoint # "" THEN lastLog.req.ApiEndpoint ELSE lg.apiEndpoint
    /\ lastLog.pub.body.function_name = lg.functionName

C11_Witness ==
  /\ lastLog.op \in SevOps /\ lastLog.built /\ lastLog.variant = "v2"
  /\ lastLog.req.ApiEndpoint = ""
  /\ lastLog.pub.body.api_endpoint = lg.apiEndpoint /\ lg.apiEndpoint # ""
  /\ lastLog.pub.body.function_name = "login"

\* C12: OrderNotification on a logger without an order queue fails and makes
\* no PublishMessage call
C12_NoOrderQueueFails ==
  (lastLog.op = "OrderNotification" /\ lg.orderQueue = "") =>
    (lastLog.err # "nil" /\ lastLog.calls = 0)

\* C13: OrderNotification publishes the raw order with the order queue name
\* as routing key, never the primary log queue name
C13_OrderGoesToOrderQueue ==
  (lastLog.op = "OrderNotification" /\ lg.orderQueue # "") =>
    /\ lastLog.pub.queue = lg.orderQueue
    /\ lastLog.pub.queue # lg.queue
    /\ lastLog.pub.body = [order_text |-> lastLog.req.OrderText,
                           merchant_id |-> lastLog.req.MerchantId]

\* C14: NewLogger declares the primary log queue once, returns an error and no
\* logger when that declaration fails, and declares no order queue
C14_DeclaresPrimaryQueueOnly ==
  /\ \A q \in QueueNames \ LogQueues : ~queueProps[q].exists
  /\ lastLog.op = "NewLogger" =>
       /\ lastLog.declared \in {<<>>} \cup {<<q>> : q \in LogQueues}
       /\ (lastLog.declared = <<>>) <=> (lastLog.perr \in {"dial_err", "chan_err"})
       /\ lastLog.err = "nil" =>
            (lg.exists /\ lastLog.declared = <<lg.queue>> /\ lastLog.perr = "nil")
       /\ (lastLog.declared # <<>> /\ lastLog.perr # "nil") =>
            (lastLog.err # "nil" /\ ~lg.exists)

C14_Witness ==
  /\ lastLog.op = "NewLogger" /\ lastLog.variant = "v2"
  /\ lastLog.declared = <<"logs">> /\ lastLog.perr # "nil"
  /\ lastLog.err = "failed to declare queue" /\ ~lg.exists

\* C16: a severity operation makes one PublishMessage call, with the empty
\* exchange and the primary log queue, when the record was built and
\* validated, and none otherwise; it returns the error of the step that failed
C16_OnePublishNoRetry ==
  lastLog.op \in SevOps =>
    /\ lastLog.calls <= 1
    /\ lastLog.built <=> (lastLog.calls = 1)
    /\ lastLog.built =>
         /\ lastLog.pub.exchange = "" /\ lastLog.pub.queue = lg.queue
         /\ (lastLog.err = "nil") <=> (lastLog.perr = "nil")
    /\ ~lastLog.built =>
         /\ lastLog.pub = NoPub
         /\ lastLog.err \in ValidationErrors \cup {"json: unsupported type"}

C16_Witness ==
  /\ lastLog.op \in SevOps /\ lastLog.built /\ lastLog.calls = 1
  /\ lastLog.perr # "nil" /\ lastLog.err # "nil"

\* C18: Build carries a byte-slice or string payload unchanged, serializes
\* every other value as JSON, and fails on an unserializable one before
\* validation, without publishing
C18_PayloadNormalized ==
  (lastLog.op \in SevOps /\ lastLog.variant = "v2") =>
    LET p == lastLog.req.RequestPayload IN
    /\ (lastLog.built /\ p.kind \in {"bytes", "string"}) =>
         lastLog.pub.body.request_payload = p.val
    /\ (lastLog.built /\ p.kind = "nil") => lastLog.pub.body.request_payload = "null"
    /\ ~Serializable(p) =>
         (lastLog.err = "json: unsupported type" /\ ~lastLog.built /\ lastLog.calls = 0)

C18_Witness ==
  /\ lastLog.op \in SevOps /\ lastLog.variant = "v2" /\ lastLog.built
  /\ lastLog.req.RequestPayload = [kind |-> "string", val |-> "p"]
  /\ lastLog.pub.body.request_payload = "p"

\* C15: PublishMessage on a connected Transport returns nil whatever the
\* routing; a message published to a queue that does not exist is dropped,
\* held by no queue and delivered to no consumer
C15_UnroutableIsDroppedSilently ==
  lastCall.op = "PublishMessage" =>
    /\ lastCall.connected => lastCall.err = "nil"
    /\ (lastCall.connected /\ ~lastCall.queueExisted) =>
         /\ ~InBroker(nextId - 1)
         /\ \A i \in SubIdx : (nextId - 1) \notin Range(subs[i].received)

C15_Witness ==
  /\ lastCall.op = "PublishMessage" /\ lastCall.connected /\ ~lastCall.queueExisted
  /\ lastCall.err = "nil" /\ nextId > 1
  /\ \A q \in QueueNames : queues[q] = <<>>

\* C17: what one consumer receives of a queue, and hands to its handler, is
\* in the order the messages were published
C17_SendOrderKept ==
  \A i \in SubIdx :
    /\ \A j, k \in DOMAIN subs[i].received :
         j < k => subs[i].received[j] < subs[i].received[k]
    /\ \A j, k \in DOMAIN subs[i].started :
         j < k => subs[i].started[j] < subs[i].started[k]

C17_Witness ==
  \E i \in SubIdx :
    /\ Len(subs[i].started) >= 2
    /\ subs[i].started[1] < subs[i].started[2]

\* C19: a ConsumeMessages call adds one goroutine, and only when it returns
\* nil; the goroutine ends once its msgs channel is closed and drained and
\* the handler has returned, and calls the handler no more after it ended
C19_LoopTerminates ==
  /\ [](lastCall.op = "ConsumeMessages" => (lastCall.spawned <=> lastCall.err = "nil"))
  /\ [](\A i \in SubIdx : subs[i].done => subs[i].handling = {})
  /\ [][/\ Len(subs') # Len(subs) =>
             /\ Len(subs') = Len(subs) + 1
             /\ lastCall'.op = "ConsumeMessages" /\ lastCall'.err = "nil"
        /\ \A i \in SubIdx : subs[i].done =>
             (subs'[i].done /\ subs'[i].started = subs[i].started)]_vars
  /\ \A i \in 1 .. MaxSubs :
       (i \in SubIdx /\ ~subs[i].open /\ subs[i].msgs = <<>> /\ subs[i].handling = {})
         ~> (i \in SubIdx /\ subs[i].done)

C19_Witness ==
  \E i \in SubIdx :
    /\ subs[i].done /\ subs[i].started # <<>>
    /\ handle[subs[i].t]

\* C20: connecting leaves no open connection behind when it returns an
\* error, and hands out a Transport only with connection and channel open
C20_ConnectNeverLeaks ==
  /\ [](\A t \in Transports : ~handle[t] => conn[t] # "open")
  /\ [](lastCall.op = "NewRabbitMQ" =>
          /\ lastCall.err = "chan_err" =>
               (conn[lastCall.t] = "closed" /\ ~handle[lastCall.t])
          /\ lastCall.err = "dial_err" =>
               (conn[lastCall.t] = "none" /\ ~handle[lastCall.t]))
  /\ [][\A t \in Transports :
          (~handle[t] /\ handle'[t]) =>
            (conn'[t] = "open" /\ channel'[t] = "open"
             /\ lastCall'.op = "NewRabbitMQ" /\ lastCall'.err = "nil")]_vars

C20_Witness ==
  /\ lastCall.op = "NewRabbitMQ" /\ lastCall.err = "chan_err"
  /\ conn[lastCall.t] = "closed" /\ channel[lastCall.t] = "none"
  /\ ~handle[lastCall.t]

\* C21: when the NewLogger that dials the broker returns an error, the
\* connection and the channel it opened are not left open
C21_FailedNewLoggerReleases ==
  (lastLog.op = "NewLogger" /\ lastLog.variant = "v1" /\ lastLog.err # "nil") =>
    \A t \in Transports : conn[t] # "open" /\ channel[t] # "open"

====
